---- MODULE Spec2Model ----
(***************************************************************************)
(* Model of spark_sql.py: the CSV loader, the catalogue and schema         *)
(* reporters, the script runner and main().  Text (file names, script      *)
(* content, SQL) is a sequence of one-character strings.  The SQL engine   *)
(* is an external collaborator: every call into it either returns or       *)
(* raises, chosen nondeterministically; only the final spark.stop() is     *)
(* taken to return.  out is what was printed, calls the calls made into    *)
(* the engine (operation, source line, text), raised the source lines at   *)
(* which the engine raised.                                                *)
(***************************************************************************)
EXTENDS Integers, Sequences, FiniteSets, TLC

VARIABLES pc, session, stops, csv_files, li, views, tables, di,
          sql_file, statements, si, out, calls, raised, arg, ret

vars == <<pc, session, stops, csv_files, li, views, tables, di,
          sql_file, statements, si, out, calls, raised, arg, ret>>

(* ------------------------------ bounds --------------------------------- *)
MaxNameLen == 3
MaxContentLen == 6
MaxStmtLen == 122
MaxStemLen == 2
MaxFiles == 2
MaxViewNameLen == 2
MaxCatalogue == 2
MaxScriptLen == 5
MaxMainStemLen == 1
MaxMainFiles == 2
MaxMainScriptLen == 3

(* --------------------------- text helpers ------------------------------ *)
Letters == {"a", "Z", "S"}
Digits == {"1"}
Whitespace == {" ", "\n"}

RECURSIVE Texts(_, _)
Texts(chars, n) ==
    IF n = 0 THEN {<<>>}
    ELSE LET shorter == Texts(chars, n - 1)
         IN  shorter \cup {Append(t, c) : t \in {s \in shorter : Len(s) = n - 1}, c \in chars}

RECURSIVE SubsetsUpTo(_, _)
SubsetsUpTo(S, n) ==
    IF n = 0 THEN {{}}
    ELSE LET smaller == SubsetsUpTo(S, n - 1)
         IN  smaller \cup {c \cup {x} : c \in smaller, x \in S}

(* _SAFE_IDENTIFIER = re.compile(r"^[A-Za-z_][A-Za-z0-9_]*$") used with    *)
(* .match(): "$" matches at the end of the string and also just before a   *)
(* newline that is the last character of the string.                       *)
IsIdentStart(c) == c \in Letters \cup {"_"}
IsIdentChar(c) == c \in Letters \cup Digits \cup {"_"}

SafeIdentifierMatch(name) ==
    \E k \in 1..Len(name) :
        /\ IsIdentStart(name[1])
        /\ \A i \in 2..k : IsIdentChar(name[i])
        /\ \/ k = Len(name)
           \/ k = Len(name) - 1 /\ name[Len(name)] = "\n"

(* str.strip(): drop leading and trailing whitespace.                      *)
RECURSIVE LStrip(_)
LStrip(s) == IF s # <<>> /\ Head(s) \in Whitespace THEN LStrip(Tail(s)) ELSE s

RECURSIVE RStrip(_)
RStrip(s) ==
    IF s # <<>> /\ s[Len(s)] \in Whitespace THEN RStrip(SubSeq(s, 1, Len(s) - 1)) ELSE s

Strip(s) == RStrip(LStrip(s))

(* str.split(sep) for a one-character separator: n separators give n+1     *)
(* pieces, empty pieces included.                                          *)
RECURSIVE Split(_, _)
Split(s, sep) ==
    IF \A i \in 1..Len(s) : s[i] # sep THEN <<s>>
    ELSE LET p == CHOOSE i \in 1..Len(s) : s[i] = sep /\ \A j \in 1..(i - 1) : s[j] # sep
         IN  <<SubSeq(s, 1, p - 1)>> \o Split(SubSeq(s, p + 1, Len(s)), sep)

(* str.splitlines(): like split on the line break, but the empty string    *)
(* has no lines and a final line break does not open a last empty line.    *)
SplitLines(s) ==
    IF s = <<>> THEN <<>>
    ELSE LET pieces == Split(s, "\n")
         IN  IF pieces[Len(pieces)] = <<>> THEN SubSeq(pieces, 1, Len(pieces) - 1) ELSE pieces

StartsWith(s, prefix) ==
    Len(s) >= Len(prefix) /\ SubSeq(s, 1, Len(prefix)) = prefix

CommentMark == <<"-", "-">>

(* The filter of the list comprehension, lines 98-101.                     *)
IsExecutable(stmt) ==
    /\ Strip(stmt) # <<>>
    /\ ~ \A k \in 1..Len(SplitLines(Strip(stmt))) :
            LET line == SplitLines(Strip(stmt))[k]
            IN  StartsWith(line, CommentMark) \/ Strip(line) = <<>>

RECURSIVE StripAll(_)
StripAll(frags) ==
    IF frags = <<>> THEN <<>> ELSE <<Strip(Head(frags))>> \o StripAll(Tail(frags))

(* statements = [stmt.strip() for stmt in content.split(";") if ...]       *)
ExtractStatements(content) == StripAll(SelectSeq(Split(content, ";"), IsExecutable))

PreviewLimit == 120
Ellipsis == <<".", ".", ".">>

(* Variant of Preview: the ellipsis is added from 120 characters on.       *)
Preview_ellipsisAtLimit(stmt) ==
    SubSeq(stmt, 1, IF Len(stmt) < PreviewLimit THEN Len(stmt) ELSE PreviewLimit)
        \o (IF Len(stmt) >= PreviewLimit THEN Ellipsis ELSE <<>>)

(* f"{stmt[:120]}{'...' if len(stmt) > 120 else ''}"                       *)
Preview(stmt) ==
    SubSeq(stmt, 1, IF Len(stmt) < PreviewLimit THEN Len(stmt) ELSE PreviewLimit)
        \o (IF Len(stmt) > PreviewLimit THEN Ellipsis ELSE <<>>)

(* os.path.basename / os.path.splitext(...)[0]                             *)
DataDir == <<"d">>
CsvExt == <<".", "c", "s", "v">>
PathOf(stem) == DataDir \o <<"/">> \o stem \o CsvExt

Basename(path) ==
    LET slashes == {i \in 1..Len(path) : path[i] = "/"}
        last == IF slashes = {} THEN 0 ELSE CHOOSE i \in slashes : \A j \in slashes : j <= i
    IN  SubSeq(path, last + 1, Len(path))

SplitExtRoot(p) ==
    LET dots == {i \in 1..Len(p) : p[i] = "."}
        dot == IF dots = {} THEN 0 ELSE CHOOSE i \in dots : \A j \in dots : j <= i
    IN  IF dot > 0 /\ \E i \in 1..(dot - 1) : p[i] # "." THEN SubSeq(p, 1, dot - 1) ELSE p

TableName(path) == SplitExtRoot(Basename(path))

(* ------------------------- the engine's side --------------------------- *)
(* spark.catalog.listTables() returns the registered views in an order the *)
(* engine chooses.                                                         *)
Listings(S) == {s \in [1..Cardinality(S) -> S] : \A i, j \in 1..Cardinality(S) : i # j => s[i] # s[j]}

Call(op, site, text) == <<op, site, text>>
Line(tag, text) == <<tag, text>>

(* The backquote character that encloses the interpolated name.            *)
Backquote == "BQ"

DescribeSql(name) == <<"DESCRIBE ", Backquote>> \o name \o <<Backquote>>
SelectSql(name) == <<"SELECT * FROM ", Backquote>> \o name \o <<Backquote, " LIMIT 5">>

NoFile == <<"<missing>">>
QueriesFile == <<"queries.sql">>

Uncaught(site) == pc' = "crashed" /\ raised' = Append(raised, site)

(* ------------------------------ main() --------------------------------- *)
(* line 122: spark = create_spark_session()                                *)
CreateSession ==
    /\ pc = "main"
    /\ session' = "active"
    /\ pc' = "set_log_level"
    /\ UNCHANGED <<stops, csv_files, li, views, tables, di, sql_file, statements, si,
                   out, calls, raised, arg, ret>>

CreateSessionRaises ==
    /\ pc = "main"
    /\ Uncaught(122)
    /\ UNCHANGED <<session, stops, csv_files, li, views, tables, di, sql_file, statements, si,
                   out, calls, arg, ret>>

(* line 123: spark.sparkContext.setLogLevel("WARN")                        *)
SetLogLevel ==
    /\ pc = "set_log_level"
    /\ pc' = "load"
    /\ UNCHANGED <<session, stops, csv_files, li, views, tables, di, sql_file, statements, si,
                   out, calls, raised, arg, ret>>

SetLogLevelRaises ==
    /\ pc = "set_log_level"
    /\ Uncaught(123)
    /\ UNCHANGED <<session, stops, csv_files, li, views, tables, di, sql_file, statements, si,
                   out, calls, arg, ret>>

(* line 137: spark.stop()                                                  *)
Stop ==
    /\ pc = "stop"
    /\ session' = "stopped"
    /\ stops' = stops + 1
    /\ calls' = Append(calls, Call("stop", 137, <<>>))
    /\ pc' = "done"
    /\ UNCHANGED <<csv_files, li, views, tables, di, sql_file, statements, si,
                   out, raised, arg, ret>>

(* -------------------------- load_csv_files ----------------------------- *)
(* lines 39-42: no file matched the glob                                   *)
LoadNoFiles ==
    /\ pc = "load"
    /\ csv_files = <<>>
    /\ out' = Append(out, Line("INFO no csv", DataDir))
    /\ pc' = "show"
    /\ UNCHANGED <<session, stops, csv_files, li, views, tables, di, sql_file, statements, si,
                   calls, raised, arg, ret>>

(* lines 39-44: the glob found files, the loop starts                      *)
LoadStart ==
    /\ pc = "load"
    /\ csv_files # <<>>
    /\ li' = 1
    /\ pc' = "load_loop"
    /\ UNCHANGED <<session, stops, csv_files, views, tables, di, sql_file, statements, si,
                   out, calls, raised, arg, ret>>

LoadAdvance ==
    /\ li' = li + 1
    /\ pc' = IF li = Len(csv_files) THEN "show" ELSE "load_loop"

(* lines 45-49: the derived name fails the pattern: warn, continue         *)
LoadSkip ==
    /\ pc = "load_loop"
    /\ ~SafeIdentifierMatch(TableName(csv_files[li]))
    /\ out' = Append(out, Line("WARN skip file", csv_files[li]))
    /\ LoadAdvance
    /\ UNCHANGED <<session, stops, csv_files, views, tables, di, sql_file, statements, si,
                   calls, raised, arg, ret>>

(* Variant of LoadRegister: the name is not validated before registering.  *)
LoadRegister_unchecked ==
    /\ pc = "load_loop"
    /\ calls' = calls \o <<Call("read.csv", 50, csv_files[li]),
                           Call("createOrReplaceTempView", 51, TableName(csv_files[li]))>>
    /\ views' = views \cup {TableName(csv_files[li])}
    /\ out' = Append(out, Line("INFO registered", TableName(csv_files[li])))
    /\ LoadAdvance
    /\ UNCHANGED <<session, stops, csv_files, tables, di, sql_file, statements, si,
                   raised, arg, ret>>

(* lines 45-52: read the file, register the view, report                   *)
LoadRegister ==
    /\ pc = "load_loop"
    /\ SafeIdentifierMatch(TableName(csv_files[li]))
    /\ calls' = calls \o <<Call("read.csv", 50, csv_files[li]),
                           Call("createOrReplaceTempView", 51, TableName(csv_files[li]))>>
    /\ views' = views \cup {TableName(csv_files[li])}
    /\ out' = Append(out, Line("INFO registered", TableName(csv_files[li])))
    /\ LoadAdvance
    /\ UNCHANGED <<session, stops, csv_files, tables, di, sql_file, statements, si,
                   raised, arg, ret>>

(* Variant of LoadReadRaises: the loader swallows the error and goes on.   *)
LoadReadRaises_swallowed ==
    /\ pc = "load_loop"
    /\ SafeIdentifierMatch(TableName(csv_files[li]))
    /\ calls' = Append(calls, Call("read.csv", 50, csv_files[li]))
    /\ raised' = Append(raised, 50)
    /\ LoadAdvance
    /\ UNCHANGED <<session, stops, csv_files, views, tables, di, sql_file, statements, si,
                   out, arg, ret>>

(* line 50 raises: nothing in load_csv_files or main catches it            *)
LoadReadRaises ==
    /\ pc = "load_loop"
    /\ SafeIdentifierMatch(TableName(csv_files[li]))
    /\ calls' = Append(calls, Call("read.csv", 50, csv_files[li]))
    /\ Uncaught(50)
    /\ UNCHANGED <<session, stops, csv_files, li, views, tables, di, sql_file, statements, si,
                   out, arg, ret>>

(* line 51 raises                                                          *)
LoadRegisterRaises ==
    /\ pc = "load_loop"
    /\ SafeIdentifierMatch(TableName(csv_files[li]))
    /\ calls' = calls \o <<Call("read.csv", 50, csv_files[li]),
                           Call("createOrReplaceTempView", 51, TableName(csv_files[li]))>>
    /\ Uncaught(51)
    /\ UNCHANGED <<session, stops, csv_files, li, views, tables, di, sql_file, statements, si,
                   out, arg, ret>>

(* ----------------------------- show_tables ----------------------------- *)
TableLines(listing) == [k \in 1..Len(listing) |-> Line("table", listing[k])]

(* Variant of ShowTables: the test for the "no tables" line is inverted.   *)
ShowTables_noneLineInverted ==
    /\ pc = "show"
    /\ \E listing \in Listings(views) :
          out' = out \o <<Line("tables header", <<>>)>>
                     \o (IF listing # <<>> THEN <<Line("no tables", <<>>)>> ELSE <<>>)
                     \o TableLines(listing)
                     \o <<Line("tables footer", <<>>)>>
    /\ calls' = Append(calls, Call("listTables", 58, <<>>))
    /\ pc' = "describe"
    /\ UNCHANGED <<session, stops, csv_files, li, views, tables, di, sql_file, statements, si,
                   raised, arg, ret>>

(* lines 57-64                                                             *)
ShowTables ==
    /\ pc = "show"
    /\ \E listing \in Listings(views) :
          out' = out \o <<Line("tables header", <<>>)>>
                     \o (IF listing = <<>> THEN <<Line("no tables", <<>>)>> ELSE <<>>)
                     \o TableLines(listing)
                     \o <<Line("tables footer", <<>>)>>
    /\ calls' = Append(calls, Call("listTables", 58, <<>>))
    /\ pc' = "describe"
    /\ UNCHANGED <<session, stops, csv_files, li, views, tables, di, sql_file, statements, si,
                   raised, arg, ret>>

(* line 58 raises after the header was printed                             *)
ShowTablesRaises ==
    /\ pc = "show"
    /\ out' = Append(out, Line("tables header", <<>>))
    /\ calls' = Append(calls, Call("listTables", 58, <<>>))
    /\ Uncaught(58)
    /\ UNCHANGED <<session, stops, csv_files, li, views, tables, di, sql_file, statements, si,
                   arg, ret>>

(* --------------------------- describe_tables --------------------------- *)
(* line 69: the listing the loop iterates over                             *)
DescribeList ==
    /\ pc = "describe"
    /\ \E listing \in Listings(views) :
          /\ tables' = listing
          /\ pc' = IF listing = <<>> THEN "run" ELSE "describe_loop"
    /\ di' = 1
    /\ calls' = Append(calls, Call("listTables", 69, <<>>))
    /\ UNCHANGED <<session, stops, csv_files, li, views, sql_file, statements, si,
                   out, raised, arg, ret>>

DescribeListRaises ==
    /\ pc = "describe"
    /\ calls' = Append(calls, Call("listTables", 69, <<>>))
    /\ Uncaught(69)
    /\ UNCHANGED <<session, stops, csv_files, li, views, tables, di, sql_file, statements, si,
                   out, arg, ret>>

DescribeAdvance ==
    /\ di' = di + 1
    /\ pc' = IF di = Len(tables) THEN "run" ELSE "describe_loop"

(* lines 70-75: the name fails the re-check: warn, continue                *)
DescribeSkip ==
    /\ pc = "describe_loop"
    /\ ~SafeIdentifierMatch(tables[di])
    /\ out' = Append(out, Line("WARN skip describe", tables[di]))
    /\ DescribeAdvance
    /\ UNCHANGED <<session, stops, csv_files, li, views, tables, sql_file, statements, si,
                   calls, raised, arg, ret>>

(* Variant of DescribeTable: the name is not re-checked.                   *)
DescribeTable_unchecked ==
    /\ pc = "describe_loop"
    /\ calls' = calls \o <<Call("sql", 77, DescribeSql(tables[di])),
                           Call("sql", 79, SelectSql(tables[di]))>>
    /\ out' = out \o <<Line("schema header", tables[di]), Line("rows", DescribeSql(tables[di])),
                       Line("preview header", tables[di]), Line("rows", SelectSql(tables[di]))>>
    /\ DescribeAdvance
    /\ UNCHANGED <<session, stops, csv_files, li, views, tables, sql_file, statements, si,
                   raised, arg, ret>>

(* lines 70-79: schema and preview are both queried and shown              *)
DescribeTable ==
    /\ pc = "describe_loop"
    /\ SafeIdentifierMatch(tables[di])
    /\ calls' = calls \o <<Call("sql", 77, DescribeSql(tables[di])),
                           Call("sql", 79, SelectSql(tables[di]))>>
    /\ out' = out \o <<Line("schema header", tables[di]), Line("rows", DescribeSql(tables[di])),
                       Line("preview header", tables[di]), Line("rows", SelectSql(tables[di]))>>
    /\ DescribeAdvance
    /\ UNCHANGED <<session, stops, csv_files, li, views, tables, sql_file, statements, si,
                   raised, arg, ret>>

(* line 77 raises (the query or its display)                               *)
DescribeSchemaRaises ==
    /\ pc = "describe_loop"
    /\ SafeIdentifierMatch(tables[di])
    /\ calls' = Append(calls, Call("sql", 77, DescribeSql(tables[di])))
    /\ out' = Append(out, Line("schema header", tables[di]))
    /\ Uncaught(77)
    /\ UNCHANGED <<session, stops, csv_files, li, views, tables, di, sql_file, statements, si,
                   arg, ret>>

(* line 79 raises (the query or its display)                               *)
DescribePreviewRaises ==
    /\ pc = "describe_loop"
    /\ SafeIdentifierMatch(tables[di])
    /\ calls' = calls \o <<Call("sql", 77, DescribeSql(tables[di])),
                           Call("sql", 79, SelectSql(tables[di]))>>
    /\ out' = out \o <<Line("schema header", tables[di]), Line("rows", DescribeSql(tables[di])),
                       Line("preview header", tables[di])>>
    /\ Uncaught(79)
    /\ UNCHANGED <<session, stops, csv_files, li, views, tables, di, sql_file, statements, si,
                   arg, ret>>

(* ----------------------------- run_sql_file ---------------------------- *)
(* lines 87-89: the script file does not exist                             *)
RunMissing ==
    /\ pc = "run"
    /\ sql_file = NoFile
    /\ out' = Append(out, Line("WARN no sql file", QueriesFile))
    /\ pc' = "stop"
    /\ UNCHANGED <<session, stops, csv_files, li, views, tables, di, sql_file, statements, si,
                   calls, raised, arg, ret>>

(* Variant of RunNoStatements: the start banner is printed before the test.*)
RunNoStatements_bannerFirst ==
    /\ pc = "run"
    /\ sql_file # NoFile
    /\ ExtractStatements(sql_file) = <<>>
    /\ statements' = <<>>
    /\ out' = out \o <<Line("run banner", QueriesFile), Line("INFO no statements", QueriesFile)>>
    /\ pc' = "stop"
    /\ UNCHANGED <<session, stops, csv_files, li, views, tables, di, sql_file, si,
                   calls, raised, arg, ret>>

(* lines 91-106: nothing executable in the file                            *)
RunNoStatements ==
    /\ pc = "run"
    /\ sql_file # NoFile
    /\ ExtractStatements(sql_file) = <<>>
    /\ statements' = <<>>
    /\ out' = Append(out, Line("INFO no statements", QueriesFile))
    /\ pc' = "stop"
    /\ UNCHANGED <<session, stops, csv_files, li, views, tables, di, sql_file, si,
                   calls, raised, arg, ret>>

(* lines 91-108: statements extracted, start banner, the loop starts       *)
RunStart ==
    /\ pc = "run"
    /\ sql_file # NoFile
    /\ ExtractStatements(sql_file) # <<>>
    /\ statements' = ExtractStatements(sql_file)
    /\ si' = 1
    /\ out' = Append(out, Line("run banner", QueriesFile))
    /\ pc' = "run_loop"
    /\ UNCHANGED <<session, stops, csv_files, li, views, tables, di, sql_file,
                   calls, raised, arg, ret>>

(* One pass of the loop of lines 109-117 printed `lines`; after the last   *)
(* statement line 118 prints the end banner and run_sql_file returns.      *)
RunAdvance(lines) ==
    /\ out' = out \o lines
                  \o (IF si = Len(statements) THEN <<Line("done banner", QueriesFile)>> ELSE <<>>)
    /\ si' = si + 1
    /\ pc' = IF si = Len(statements) THEN "stop" ELSE "run_loop"

(* lines 110-115: the statement returns no columns, nothing is shown       *)
RunStmtNoColumns ==
    /\ pc = "run_loop"
    /\ calls' = Append(calls, Call("sql", 112, statements[si]))
    /\ RunAdvance(<<Line("preview", Preview(statements[si]))>>)
    /\ UNCHANGED <<session, stops, csv_files, li, views, tables, di, sql_file, statements,
                   raised, arg, ret>>

(* lines 110-115: the statement returns rows, they are shown               *)
RunStmtRows ==
    /\ pc = "run_loop"
    /\ calls' = calls \o <<Call("sql", 112, statements[si]), Call("show", 115, statements[si])>>
    /\ RunAdvance(<<Line("preview", Preview(statements[si])), Line("rows", statements[si])>>)
    /\ UNCHANGED <<session, stops, csv_files, li, views, tables, di, sql_file, statements,
                   raised, arg, ret>>

(* Variant of RunStmtSqlRaises: the error is not caught.                   *)
RunStmtSqlRaises_uncaught ==
    /\ pc = "run_loop"
    /\ calls' = Append(calls, Call("sql", 112, statements[si]))
    /\ Uncaught(112)
    /\ UNCHANGED <<session, stops, csv_files, li, views, tables, di, sql_file, statements, si,
                   out, arg, ret>>

(* line 112 raises, lines 116-117 catch and report it                      *)
RunStmtSqlRaises ==
    /\ pc = "run_loop"
    /\ calls' = Append(calls, Call("sql", 112, statements[si]))
    /\ raised' = Append(raised, 112)
    /\ RunAdvance(<<Line("preview", Preview(statements[si])), Line("ERROR", statements[si])>>)
    /\ UNCHANGED <<session, stops, csv_files, li, views, tables, di, sql_file, statements,
                   arg, ret>>

(* line 115 raises, lines 116-117 catch and report it                      *)
RunStmtShowRaises ==
    /\ pc = "run_loop"
    /\ calls' = calls \o <<Call("sql", 112, statements[si]), Call("show", 115, statements[si])>>
    /\ raised' = Append(raised, 115)
    /\ RunAdvance(<<Line("preview", Preview(statements[si])), Line("ERROR", statements[si])>>)
    /\ UNCHANGED <<session, stops, csv_files, li, views, tables, di, sql_file, statements,
                   arg, ret>>

(* ------------------- the pure functions, called alone ------------------ *)
pipeline == <<session, stops, csv_files, li, views, tables, di, sql_file, statements, si,
              out, calls, raised>>

MatchIdentifier ==
    /\ pc = "call _SAFE_IDENTIFIER.match"
    /\ ret' = SafeIdentifierMatch(arg)
    /\ pc' = "returned"
    /\ UNCHANGED <<pipeline, arg>>

SplitStatements ==
    /\ pc = "call split"
    /\ ret' = ExtractStatements(arg)
    /\ pc' = "returned"
    /\ UNCHANGED <<pipeline, arg>>

FormatPreview ==
    /\ pc = "call preview"
    /\ ret' = Preview(arg)
    /\ pc' = "returned"
    /\ UNCHANGED <<pipeline, arg>>

(* --------------------------- initial states ---------------------------- *)
NameChars == {"a", "Z", "_", "1", "-", " ", "\n", ";"}
ContentChars == {"S", "-", " ", "\n", ";"}
StemChars == {"a", "-", "\n"}
CatalogueChars == {"a", "-", "\n"}
MainStemChars == {"a", "-"}
MainScriptChars == {"S", ";"}

(* glob("*.csv") lists each matching file once; "*" does not match a file  *)
(* name that starts with a dot.                                            *)
Stems(chars, len) == {t \in Texts(chars, len) : t # <<>> /\ t[1] # "."}
NoRepeat(l) == \A i, j \in 1..Len(l) : i # j => l[i] # l[j]
GlobResult(l) == [k \in 1..Len(l) |-> PathOf(l[k])]

Catalogues(chars, len, n) ==
    SubsetsUpTo(Texts(chars, len) \ {<<>>}, n)

(* A statement of n letters, for the preview.                              *)
LetterSeq == <<"S", "E", "L">>
StatementOf(n, k) == [i \in 1..n |-> LetterSeq[((i * k) % 3) + 1]]

Idle ==
    /\ session = "none" /\ stops = 0 /\ csv_files = <<>> /\ li = 0 /\ views = {}
    /\ tables = <<>> /\ di = 0 /\ sql_file = NoFile /\ statements = <<>> /\ si = 0
    /\ out = <<>> /\ calls = <<>> /\ raised = <<>>

(* main() in a new process; the session is created or reused (line 29), so *)
(* its catalogue may already hold a table.                                 *)
Init ==
    /\ pc = "main"
    /\ session = "none"
    /\ stops = 0
    /\ \E n \in 0..MaxMainFiles :
          \E l \in [1..n -> Stems(MainStemChars, MaxMainStemLen)] :
             NoRepeat(l) /\ csv_files = GlobResult(l)
    /\ li = 0
    /\ views \in {{}, {<<"-", "v">>}}
    /\ tables = <<>>
    /\ di = 0
    /\ sql_file \in {NoFile} \cup Texts(MainScriptChars, MaxMainScriptLen)
    /\ statements = <<>>
    /\ si = 0
    /\ out = <<>> /\ calls = <<>> /\ raised = <<>>
    /\ arg = <<>> /\ ret = <<>>

Next ==
    \/ CreateSession \/ CreateSessionRaises \/ SetLogLevel \/ SetLogLevelRaises
    \/ LoadNoFiles \/ LoadStart \/ LoadSkip \/ LoadRegister \/ LoadReadRaises \/ LoadRegisterRaises
    \/ ShowTables \/ ShowTablesRaises
    \/ DescribeList \/ DescribeListRaises
    \/ DescribeSkip \/ DescribeTable \/ DescribeSchemaRaises \/ DescribePreviewRaises
    \/ RunMissing \/ RunNoStatements \/ RunStart
    \/ RunStmtNoColumns \/ RunStmtRows \/ RunStmtSqlRaises \/ RunStmtShowRaises
    \/ Stop

Spec == Init /\ [][Next]_vars

(* load_csv_files then show_tables on a session that holds no view yet     *)
InitLoad ==
    /\ pc = "load"
    /\ session = "active"
    /\ stops = 0
    /\ \E n \in 0..MaxFiles :
          \E l \in [1..n -> Stems(StemChars, MaxStemLen)] :
             NoRepeat(l) /\ csv_files = GlobResult(l)
    /\ li = 0
    /\ views = {}
    /\ tables = <<>> /\ di = 0 /\ sql_file = NoFile /\ statements = <<>> /\ si = 0
    /\ out = <<>> /\ calls = <<>> /\ raised = <<>>
    /\ arg = <<>> /\ ret = <<>>

NextLoad ==
    \/ LoadNoFiles \/ LoadStart \/ LoadSkip \/ LoadRegister \/ LoadReadRaises \/ LoadRegisterRaises
    \/ ShowTables \/ ShowTablesRaises

SpecLoad == InitLoad /\ [][NextLoad]_vars

(* describe_tables on a session whose catalogue holds any views            *)
InitDescribe ==
    /\ pc = "describe"
    /\ session = "active"
    /\ stops = 0
    /\ csv_files = <<>> /\ li = 0
    /\ views \in Catalogues(CatalogueChars, MaxViewNameLen, MaxCatalogue)
    /\ tables = <<>> /\ di = 0 /\ sql_file = NoFile /\ statements = <<>> /\ si = 0
    /\ out = <<>> /\ calls = <<>> /\ raised = <<>>
    /\ arg = <<>> /\ ret = <<>>

NextDescribe ==
    \/ DescribeList \/ DescribeListRaises
    \/ DescribeSkip \/ DescribeTable \/ DescribeSchemaRaises \/ DescribePreviewRaises

SpecDescribe == InitDescribe /\ [][NextDescribe]_vars

(* run_sql_file on any script file                                         *)
InitRun ==
    /\ pc = "run"
    /\ session = "active"
    /\ stops = 0
    /\ csv_files = <<>> /\ li = 0 /\ views = {} /\ tables = <<>> /\ di = 0
    /\ sql_file \in {NoFile} \cup Texts(ContentChars, MaxScriptLen)
    /\ statements = <<>> /\ si = 0
    /\ out = <<>> /\ calls = <<>> /\ raised = <<>>
    /\ arg = <<>> /\ ret = <<>>

NextRun ==
    \/ RunMissing \/ RunNoStatements \/ RunStart
    \/ RunStmtNoColumns \/ RunStmtRows \/ RunStmtSqlRaises \/ RunStmtShowRaises

SpecRun == InitRun /\ [][NextRun]_vars

InitIdent ==
    /\ Idle
    /\ pc = "call _SAFE_IDENTIFIER.match"
    /\ arg \in Texts(NameChars, MaxNameLen)
    /\ ret = FALSE

SpecIdent == InitIdent /\ [][MatchIdentifier]_vars

InitExtract ==
    /\ Idle
    /\ pc = "call split"
    /\ arg \in Texts(ContentChars, MaxContentLen)
    /\ ret = <<>>

SpecExtract == InitExtract /\ [][SplitStatements]_vars

InitPreview ==
    /\ Idle
    /\ pc = "call preview"
    /\ arg \in {StatementOf(n, k) : n \in 1..MaxStmtLen, k \in 0..2}
    /\ ret = <<>>

SpecPreview == InitPreview /\ [][FormatPreview]_vars

(* ============================== properties ============================= *)
Tagged(tag) == {i \in 1..Len(out) : out[i][1] = tag}
CallsAt(sites) == {i \in 1..Len(calls) : calls[i][2] \in sites}
SubmittedStatements == LET sub == SelectSeq(calls, LAMBDA c : c[1] = "sql" /\ c[2] = 112)
                       IN  [k \in 1..Len(sub) |-> sub[k][3]]
RunTags == {"WARN no sql file", "INFO no statements", "run banner", "preview", "ERROR", "done banner"}

(* C1: run_sql_file submits every extracted statement to the engine        *)
(* exactly once and in file order; an error raised while executing or      *)
(* displaying a statement is caught and reported with one [ERROR] line and *)
(* the statements after it are still executed.                             *)
C1_EveryStatementRunsOnceInOrder ==
    /\ pc \in {"run", "run_loop", "stop"}
    /\ pc = "run_loop" =>
          /\ si \in 1..Len(statements)
          /\ SubmittedStatements = SubSeq(statements, 1, si - 1)
    /\ (pc = "stop" /\ statements # <<>>) => SubmittedStatements = statements
    /\ Cardinality(Tagged("ERROR")) = Len(raised)
    /\ \A i \in Tagged("ERROR") : out[i - 1] = Line("preview", Preview(out[i][2]))

C1_Witness ==
    /\ pc = "stop"
    /\ Len(statements) = 3
    /\ raised = <<112, 115>>
    /\ out[Len(out) - 1][1] = "rows"

(* C8: when the script file is missing, or holds no executable statement,  *)
(* run_sql_file calls the engine not at all, prints no banner, prints      *)
(* exactly one line ([WARN], respectively [INFO]) and returns normally.    *)
C8_EarlyReturn ==
    (sql_file = NoFile \/ ExtractStatements(sql_file) = <<>>) =>
        /\ pc \in {"run", "stop"}
        /\ calls = <<>>
        /\ raised = <<>>
        /\ pc = "run" => out = <<>>
        /\ pc = "stop" =>
              out = <<Line(IF sql_file = NoFile THEN "WARN no sql file" ELSE "INFO no statements",
                           QueriesFile)>>

C8_Witness ==
    /\ pc = "stop"
    /\ sql_file # NoFile
    /\ StartsWith(sql_file, CommentMark)
    /\ \E i \in 1..Len(sql_file) : sql_file[i] = ";"
    /\ out = <<Line("INFO no statements", QueriesFile)>>

(* C4: every name that describe_tables puts into a DESCRIBE or SELECT      *)
(* statement passed the identifier pattern, whatever the catalogue lists;  *)
(* a listed name that fails it gets a warning and no statement.            *)
C4_InjectionGate ==
    /\ \A i \in CallsAt({77, 79}) :
          \E k \in 1..Len(tables) :
             /\ SafeIdentifierMatch(tables[k])
             /\ calls[i][3] \in {DescribeSql(tables[k]), SelectSql(tables[k])}
    /\ \A k \in 1..Len(tables) :
          ~SafeIdentifierMatch(tables[k]) =>
             /\ \A i \in 1..Len(calls) :
                   calls[i][3] \notin {DescribeSql(tables[k]), SelectSql(tables[k])}
             /\ \A i \in 1..Len(out) :
                   out[i][2] = tables[k] => out[i][1] = "WARN skip describe"
             /\ (k < di \/ pc = "run") =>
                   Cardinality({i \in Tagged("WARN skip describe") : out[i][2] = tables[k]}) = 1

C4_Witness ==
    /\ pc = "run"
    /\ Len(tables) = 2
    /\ \E j, k \in 1..2 : ~SafeIdentifierMatch(tables[j]) /\ SafeIdentifierMatch(tables[k])
    /\ Cardinality(CallsAt({77, 79})) = 2
    /\ Cardinality(Tagged("WARN skip describe")) = 1

(* C6: from a session with no views, once load_csv_files has returned the  *)
(* registered views are exactly the base names that pass the identifier    *)
(* pattern; a file whose base name fails it gets exactly one warning and   *)
(* is never read or registered; show_tables lists exactly those views.     *)
ValidFiles == {k \in 1..Len(csv_files) : SafeIdentifierMatch(TableName(csv_files[k]))}

C6_LoaderRegistersExactlyValidNames ==
    pc \in {"show", "describe"} =>
        /\ views = {TableName(csv_files[k]) : k \in ValidFiles}
        /\ Cardinality(Tagged("WARN skip file")) = Len(csv_files) - Cardinality(ValidFiles)
        /\ \A k \in 1..Len(csv_files) :
              k \notin ValidFiles =>
                 /\ Cardinality({i \in Tagged("WARN skip file") : out[i][2] = csv_files[k]}) = 1
                 /\ \A i \in 1..Len(calls) : calls[i][3] \notin {csv_files[k], TableName(csv_files[k])}
        /\ pc = "describe" =>
              /\ {out[i][2] : i \in Tagged("table")} = views
              /\ Cardinality(Tagged("table")) = Cardinality(views)

C6_Witness ==
    /\ pc = "describe"
    /\ Len(csv_files) = 2
    /\ Cardinality(ValidFiles) = 1
    /\ Cardinality(views) = 1
    /\ \E k \in 1..2 : TableName(csv_files[k]) = <<"a", "-">>
    /\ Cardinality(Tagged("WARN skip file")) = 1

C10_ErrorsOutsideRunnerPropagate ==
    /\ pc = "crashed" <=> (\E i \in 1..Len(raised) : raised[i] \notin {112, 115})
    /\ \A i \in 1..Len(raised) :
          raised[i] \notin {112, 115} =>
             /\ i = Len(raised)
             /\ calls # <<>> => calls[Len(calls)][2] = raised[i]
             /\ \A j \in 1..Len(out) : out[j][1] \notin RunTags
             /\ CallsAt({112, 115, 137}) = {}
             /\ stops = 0
             /\ raised[i] \in {50, 51} =>
                   /\ \A k \in (li + 1)..Len(csv_files) :
                         \A j \in 1..Len(calls) : calls[j][3] # csv_files[k]
                   /\ CallsAt({58, 69, 77, 79}) = {}
             /\ raised[i] \in {77, 79} =>
                   \A k \in (di + 1)..Len(tables) :
                      \A j \in 1..Len(calls) : calls[j][3] # DescribeSql(tables[k])
    /\ \A i \in 1..Len(raised) : raised[i] \in {112, 115} => pc \in {"run_loop", "stop", "done"}

C10_Witness ==
    /\ pc = "crashed"
    /\ raised = <<50>>
    /\ li = 1
    /\ Len(csv_files) = 2
    /\ sql_file # NoFile /\ ExtractStatements(sql_file) # <<>>

(* C3: on every run on which the session was created, the session is       *)
(* stopped exactly once, as the last step, also when the engine raises in  *)
(* load_csv_files, show_tables, describe_tables or run_sql_file.           *)
C3_SessionAlwaysStopped ==
    ( /\ session # "none"
      /\ pc \in {"done", "crashed"}
      /\ \A i \in 1..Len(raised) : raised[i] \in {50, 51, 58, 69, 77, 79, 112, 115} )
    => /\ stops = 1
       /\ calls[Len(calls)] = Call("stop", 137, <<>>)

(* C5: the validator accepts a name iff it is non-empty, starts with an    *)
(* ASCII letter or underscore and continues with ASCII letters, digits or  *)
(* underscores only; a name holding a newline is rejected.                 *)
IsPlainIdentifier(name) ==
    /\ name # <<>>
    /\ IsIdentStart(name[1])
    /\ \A i \in 2..Len(name) : IsIdentChar(name[i])

C5_ValidatorAcceptsExactlyIdentifiers ==
    pc = "returned" => (ret <=> IsPlainIdentifier(arg))

(* C2: the extracted statements are, in file order, the trimmed fragments  *)
(* between semicolons that are non-empty and hold a line that is neither   *)
(* blank nor a comment line, a comment line being one that starts with --  *)
(* after trimming.                                                         *)
IsCommentLine(line) == StartsWith(Strip(line), CommentMark)
IsBlankLine(line) == Strip(line) = <<>>

HasCodeLine(frag) ==
    \E k \in 1..Len(Split(frag, "\n")) :
        LET line == Split(frag, "\n")[k] IN ~IsBlankLine(line) /\ ~IsCommentLine(line)

C2_ExtractionAsSpecified ==
    pc = "returned" =>
        ret = SelectSeq(StripAll(Split(arg, ";")), LAMBDA f : f # <<>> /\ HasCodeLine(f))

(* C7: the preview is the first 120 characters followed by an ellipsis for *)
(* a statement of more than 120 characters, and the whole statement with   *)
(* no ellipsis otherwise.                                                  *)
C7_PreviewTruncation ==
    pc = "returned" =>
        IF Len(arg) > 120
        THEN /\ Len(ret) = 123
             /\ \A i \in 1..120 : ret[i] = arg[i]
             /\ \A i \in 121..123 : ret[i] = "."
        ELSE ret = arg

C7_Witness ==
    /\ pc = "returned"
    /\ Len(arg) = 121
    /\ Len(ret) = 123
====
